---- MODULE Spec2Model ----
(***************************************************************************)
(* Model of the GLTF Collection Exporter add-on                            *)
(* (src/collection_gltf_exporter.py).                                      *)
(*                                                                         *)
(* Strings are sequences of one-character strings, so that strip(),        *)
(* the file-name filter and os.path.join are computed character by         *)
(* character as Python computes them (POSIX flavour of os.path).           *)
(* An optional value (Python None or a value) is a sequence of length 0    *)
(* or 1.  bpy.data.collections is the index range Colls, iterated in       *)
(* increasing index; the host keeps it ordered by name.                    *)
(* An operator runs to completion on the host's main thread, so each       *)
(* operator is one action; the exporter calls it makes are recorded in     *)
(* `calls`.                                                                *)
(***************************************************************************)
EXTENDS Integers, Sequences, FiniteSets, TLC

\* Number of collections in bpy.data.collections.
NumColl == 3
\* Number of objects in bpy.data.objects.
NumObj == 3

Colls == 1..NumColl
Objs == 1..NumObj

VARIABLES
    name,                      \* collection.name, per collection
    children,                  \* collection.children, per collection
    objects,                   \* collection.objects, per collection
    props,                     \* the collection's custom properties (ID properties)
    sceneObjs,                 \* bpy.context.scene.objects
    export_path_prop,          \* scene.gltf_export_props.export_path
    use_collection_structure,  \* scene.gltf_export_props.use_collection_structure
    blend_filepath,            \* bpy.data.filepath
    selected,                  \* bpy.context.selected_objects
    active,                    \* bpy.context.view_layer.objects.active (optional)
    mode,                      \* bpy.context.object.mode
    report,                    \* the last operator's self.report(...)
    export_path,               \* export_path of the last export run (optional)
    exported_count,            \* exported_count of the last export run
    calls,                     \* bpy.ops.export_scene.gltf invocations of the last operator
    made_dirs                  \* os.makedirs invocations of the last operator

vars == <<name, children, objects, props, sceneObjs, export_path_prop,
          use_collection_structure, blend_filepath, selected, active, mode,
          report, export_path, exported_count, calls, made_dirs>>

sceneVars == <<name, children, objects, sceneObjs, export_path_prop,
               use_collection_structure, blend_filepath>>

--------------------------------------------------------------------------
\* Python string helpers

\* str.isspace() of one character.
IsSpace(ch) ==
    ch = " "

\* str.isalnum() of one character, over the characters the model uses.
IsAlnum(ch) ==
    ch \in {"A", "B", "C", "D", "Z", "o", "p", "f", "b", "h",
            "e", "s", "k", "t", "g", "l"}

RECURSIVE LStrip(_)
\* str.lstrip()
LStrip(s) ==
    IF s # <<>> /\ IsSpace(Head(s)) THEN LStrip(Tail(s)) ELSE s

RECURSIVE RStrip(_)
\* str.rstrip()
RStrip(s) ==
    IF s # <<>> /\ IsSpace(s[Len(s)]) THEN RStrip(SubSeq(s, 1, Len(s) - 1)) ELSE s

\* str.strip()
Strip(s) ==
    LStrip(RStrip(s))

RECURSIVE RStripSlash(_)
\* str.rstrip('/')
RStripSlash(s) ==
    IF s # <<>> /\ s[Len(s)] = "/" THEN RStripSlash(SubSeq(s, 1, Len(s) - 1)) ELSE s

\* str.rfind('/') + 1: the length of the prefix that ends with the last '/'.
LastSlash(s) ==
    LET at == {i \in 1..Len(s) : s[i] = "/"}
    IN  IF at = {} THEN 0 ELSE CHOOSE i \in at : \A j \in at : j <= i

\* posixpath.dirname
Dirname(p) ==
    LET head == SubSeq(p, 1, LastSlash(p))
    IN  IF head # <<>> /\ \E i \in 1..Len(head) : head[i] # "/"
        THEN RStripSlash(head)
        ELSE head

\* posixpath.join(a, b)
PathJoin(a, b) ==
    IF b # <<>> /\ Head(b) = "/" THEN b
    ELSE IF a = <<>> \/ a[Len(a)] = "/" THEN a \o b
    ELSE a \o <<"/">> \o b

RECURSIVE PathJoinAll(_, _)
\* posixpath.join(a, *p)
PathJoinAll(a, p) ==
    IF p = <<>> THEN a ELSE PathJoinAll(PathJoin(a, Head(p)), Tail(p))

\* The user's home directory ($HOME).
Home ==
    <<"/", "h">>

\* posixpath.expanduser for a path that starts with "~/"
ExpandUser(p) ==
    IF p # <<>> /\ Head(p) = "~" THEN RStripSlash(Home) \o Tail(p) ELSE p

\* list.reverse()
Reverse(s) ==
    [i \in 1..Len(s) |-> s[Len(s) + 1 - i]]

--------------------------------------------------------------------------
\* Custom properties

NoProps ==
    [k \in {} |-> FALSE]

\* collection[key] = value
SetProp(p, key, value) ==
    [k \in (DOMAIN p) \cup {key} |-> IF k = key THEN value ELSE p[k]]

\* collection.get(key, default)
GetProp(c, key, default) ==
    IF key \in DOMAIN props[c] THEN props[c][key] ELSE default

\* `name in bpy.data.collections`
HasCollection(nm) ==
    \E c \in Colls : name[c] = nm

\* bpy.data.collections[name]
CollectionNamed(nm) ==
    CHOOSE c \in Colls : name[c] = nm

--------------------------------------------------------------------------
\* Flag operations

\* current_status of GLTF_OT_toggle_collection.execute
CurrentStatus(c) ==
    GetProp(c, "export_gltf", FALSE)

\* A toggle that sets the flag whatever it was.
ToggledPropsSetsTrue(c) ==
    SetProp(props[c], "export_gltf", TRUE)

\* collection["export_gltf"] = not current_status
ToggledProps(c) ==
    SetProp(props[c], "export_gltf", ~CurrentStatus(c))

\* The body of the loop of enable_all_collections_for_export
EnabledProps(c) ==
    SetProp(props[c], "export_gltf", TRUE)

\* A Disable All that inverts each flag instead of clearing it.
DisabledPropsInverts(c) ==
    SetProp(props[c], "export_gltf", ~CurrentStatus(c))

\* The body of the loop of disable_all_collections_for_export
DisabledProps(c) ==
    SetProp(props[c], "export_gltf", FALSE)

Report(level, op, nm, status, count) ==
    [level |-> level, op |-> op, name |-> nm, status |-> status, count |-> count]

\* An operator that is not the export operator invokes no exporter and
\* creates no directory.
NoExportRun ==
    /\ export_path' = <<>>
    /\ exported_count' = 0
    /\ calls' = <<>>
    /\ made_dirs' = {}

GLTF_OT_toggle_collection(collection_name) ==
    /\ IF HasCollection(collection_name)
       THEN LET collection == CollectionNamed(collection_name)
            IN  /\ props' = [props EXCEPT ![collection] = ToggledProps(collection)]
                /\ report' = Report("INFO", "toggle", collection_name,
                                    IF ~CurrentStatus(collection) THEN "enabled" ELSE "disabled", 0)
       ELSE /\ props' = props
            /\ report' = Report("ERROR", "toggle", collection_name, "not found", 0)
    /\ NoExportRun
    /\ UNCHANGED <<sceneVars, selected, active, mode>>

GLTF_OT_enable_all_collections ==
    /\ props' = [c \in Colls |-> EnabledProps(c)]
    /\ report' = Report("INFO", "enable_all", <<>>, "", NumColl)
    /\ NoExportRun
    /\ UNCHANGED <<sceneVars, selected, active, mode>>

GLTF_OT_disable_all_collections ==
    /\ props' = [c \in Colls |-> DisabledProps(c)]
    /\ report' = Report("INFO", "disable_all", <<>>, "", NumColl)
    /\ NoExportRun
    /\ UNCHANGED <<sceneVars, selected, active, mode>>

--------------------------------------------------------------------------
\* Folder hierarchy

\* `x.name in [child.name for child in parent.children]`
IsChildOf(x, parent) ==
    name[x] \in {name[child] : child \in children[parent]}

\* The first collection of bpy.data.collections that satisfies the test of
\* the loop of find_parents.
FirstParent(target) ==
    CHOOSE p \in Colls :
        /\ IsChildOf(target, p)
        /\ \A q \in Colls : IsChildOf(target, q) => p <= q

RECURSIVE find_parents(_, _)
find_parents(target_collection, current_path) ==
    IF \E p \in Colls : IsChildOf(target_collection, p)
    THEN LET parent_collection == FirstParent(target_collection)
             new_path == current_path \o <<name[parent_collection]>>
             parent_found == \E grandparent \in Colls : IsChildOf(parent_collection, grandparent)
         IN  IF parent_found
             THEN find_parents(parent_collection, new_path)
             ELSE new_path
    ELSE current_path

get_collection_hierarchy_path(collection) ==
    find_parents(collection, <<>>)

--------------------------------------------------------------------------
\* The export loop

RECURSIVE SortedSeq(_)
\* The iteration order of a set of objects.
SortedSeq(S) ==
    IF S = {} THEN <<>>
    ELSE LET m == CHOOSE x \in S : \A y \in S : x <= y
         IN  <<m>> \o SortedSeq(S \ {m})

\* for obj in collection.objects: if obj.name in scene.objects: ... append(obj)
ObjectsInCollection(c) ==
    SelectSeq(SortedSeq(objects[c]), LAMBDA obj : obj \in sceneObjs)

\* A DESELECT that leaves the selection as it is.
DeselectNothing(sel) ==
    sel

\* bpy.ops.object.select_all(action='DESELECT')
DeselectAll(sel) ==
    {}

\* The selection after the DESELECT and the obj.select_set(True) of each
\* valid object of the collection.
SelectCollection(sel, objs_in) ==
    DeselectAll(sel) \cup {objs_in[i] : i \in 1..Len(objs_in)}

\* safe_collection_name
SafeCollectionName(nm) ==
    RStrip(SelectSeq(nm, LAMBDA ch : IsAlnum(ch) \/ ch \in {" ", "-", "_"}))

\* filename
FileName(nm) ==
    SafeCollectionName(nm) \o <<".", "g", "l", "t", "f">>

\* hierarchy after hierarchy.reverse(), or <<>> when no folder is used
FolderHierarchy(c, use_structure) ==
    IF use_structure THEN Reverse(get_collection_hierarchy_path(c)) ELSE <<>>

\* final_export_path
FinalExportPath(c, path, use_structure) ==
    LET hierarchy == FolderHierarchy(c, use_structure)
    IN  IF hierarchy # <<>>
        THEN PathJoin(path, PathJoinAll(Head(hierarchy), Tail(hierarchy)))
        ELSE path

\* An export loop that does not look at the flag.
ExportEnabledAlways(c) ==
    TRUE

\* export_enabled
ExportEnabled(c) ==
    GetProp(c, "export_gltf", FALSE)

\* A count that is incremented whether or not the exporter raised.
CountAfterIgnoringFailure(count, raised) ==
    count + 1

\* exported_count after the try block around the exporter call
CountAfter(count, raised) ==
    IF raised THEN count ELSE count + 1

\* One iteration of `for collection in bpy.data.collections`.
LoopBody(c, st, path, use_structure, raises) ==
    IF ~ExportEnabled(c) THEN st
    ELSE IF objects[c] = {} THEN st
    ELSE LET objs_in == ObjectsInCollection(c)
             sel == SelectCollection(st.selected, objs_in)
         IN  IF objs_in = <<>> THEN [st EXCEPT !.selected = sel]
             ELSE LET final == FinalExportPath(c, path, use_structure)
                      hierarchy == FolderHierarchy(c, use_structure)
                      call == [collection |-> c,
                               filepath |-> PathJoin(final, FileName(name[c])),
                               dir |-> final,
                               hierarchy |-> IF use_structure
                                             THEN get_collection_hierarchy_path(c)
                                             ELSE <<>>,
                               selected |-> sel,
                               active |-> <<objs_in[1]>>,
                               raised |-> c \in raises]
                  IN  [selected |-> sel,
                       active |-> <<objs_in[1]>>,
                       exported_count |-> CountAfter(st.exported_count, c \in raises),
                       calls |-> Append(st.calls, call),
                       made_dirs |-> IF hierarchy # <<>> THEN st.made_dirs \cup {final}
                                     ELSE st.made_dirs]

RECURSIVE ExportLoop(_, _, _, _, _)
ExportLoop(c, st, path, use_structure, raises) ==
    IF c > NumColl THEN st
    ELSE ExportLoop(c + 1, LoopBody(c, st, path, use_structure, raises),
                    path, use_structure, raises)

\* export_path after the defaulting at the head of export_collections_to_gltf
ResolvedExportPath(arg) ==
    IF arg = <<>>
    THEN IF blend_filepath # <<>>
         THEN Dirname(blend_filepath)
         ELSE ExpandUser(<<"~", "/", "D", "e", "s", "k", "t", "o", "p">>)
    ELSE arg[1]

\* An execute that passes the setting on without strip().
CustomPathUnstripped ==
    IF export_path_prop # <<>> THEN <<export_path_prop>> ELSE <<>>

\* The argument GLTF_OT_export_collections.execute passes on.
CustomPath ==
    LET custom_path == IF export_path_prop # <<>> THEN <<Strip(export_path_prop)>> ELSE <<>>
    IN  IF custom_path # <<>> /\ custom_path[1] # <<>> THEN custom_path ELSE <<>>

\* export_collections_to_gltf; `raises` are the collections for which the
\* host exporter raises.  The final mode_set may fail, and the mode then
\* stays OBJECT.
export_collections_to_gltf(arg, raises) ==
    LET use_structure == use_collection_structure
        path == ResolvedExportPath(arg)
        original_selection == selected
        original_active == active
        original_mode == IF active # <<>> THEN mode ELSE "OBJECT"
        st0 == [selected |-> DeselectAll(selected), active |-> active, exported_count |-> 0,
                calls |-> <<>>, made_dirs |-> {}]
        st == ExportLoop(1, st0, path, use_structure, raises)
    IN  /\ export_path' = <<path>>
        /\ exported_count' = st.exported_count
        /\ calls' = st.calls
        /\ made_dirs' = st.made_dirs
        /\ selected' = {obj \in original_selection : obj \in sceneObjs}
        /\ active' = original_active
        /\ IF original_active # <<>> /\ original_mode # "OBJECT"
           THEN mode' \in {original_mode, "OBJECT"}
           ELSE mode' = mode

GLTF_OT_export_collections ==
    \E raises \in SUBSET Colls :
        /\ export_collections_to_gltf(CustomPath, raises)
        /\ report' = Report("INFO", "export", <<>>, "", 0)
        /\ UNCHANGED <<sceneVars, props>>

--------------------------------------------------------------------------
\* Initial states and specifications

NoReport ==
    Report("", "none", <<>>, "", 0)

\* Nothing has been exported and no flag has been set.
InitSession ==
    /\ props = [c \in Colls |-> NoProps]
    /\ report = NoReport
    /\ export_path = <<>>
    /\ exported_count = 0
    /\ calls = <<>>
    /\ made_dirs = {}

\* Names of collections without special characters, in the host's order.
SimpleNames ==
    <<<<"A">>, <<"B">>, <<"C">>, <<"D">>>>

\* A name no collection of the flag scenes has.
MissingName ==
    <<"Z">>

\* Scenes for the flag operators and the export loop: flat collections;
\* every object is linked to one collection or to none (home 0), objects
\* with a larger index to the same or a later collection; the first or the
\* last object is not in the current scene; every scene object is selected.
InitFlags ==
    /\ name = [c \in Colls |-> SimpleNames[c]]
    /\ children = [c \in Colls |-> {}]
    /\ \E home \in [Objs -> Colls \cup {0}] :
           /\ \A o, q \in Objs : o < q => home[o] <= home[q]
           /\ objects = [c \in Colls |-> {o \in Objs : home[o] = c}]
    /\ sceneObjs \in {Objs \ {1}, Objs \ {NumObj}}
    /\ export_path_prop = <<>>
    /\ use_collection_structure = FALSE
    /\ blend_filepath = <<>>
    /\ selected = sceneObjs
    /\ active = <<>>
    /\ mode = "OBJECT"
    /\ InitSession

Next ==
    \/ \E collection_name \in {name[c] : c \in Colls} \cup {MissingName} :
           GLTF_OT_toggle_collection(collection_name)
    \/ GLTF_OT_enable_all_collections
    \/ GLTF_OT_disable_all_collections
    \/ GLTF_OT_export_collections

Spec ==
    InitFlags /\ [][Next]_vars

\* Collection names with a dot and with a path separator, in the host's order.
PathNames ==
    <<<<"/", "A">>, <<"A">>, <<"A", ".", "B">>, <<"A", "B">>>>

Step(ch, S) ==
    UNION {ch[x] : x \in S}

RECURSIVE ReachN(_, _, _)
ReachN(ch, S, k) ==
    IF k = 0 THEN {}
    ELSE Step(ch, S) \cup ReachN(ch, Step(ch, S), k - 1)

\* The host never lets a collection be its own descendant.
Acyclic(ch) ==
    \A c \in Colls : c \notin ReachN(ch, {c}, NumColl)

AllFlagged ==
    props = [c \in Colls |-> SetProp(NoProps, "export_gltf", TRUE)]

\* Scenes for the folder and file paths: any names of PathNames, any
\* nesting of the collections (a collection may be linked under several
\* parents), every collection flagged and holding every object.
InitPaths ==
    /\ children \in [Colls -> SUBSET Colls]
    /\ Acyclic(children)
    /\ \E idx \in [Colls -> 1..Len(PathNames)] :
           /\ \A c, d \in Colls : c < d => idx[c] < idx[d]
           /\ name = [c \in Colls |-> PathNames[idx[c]]]
    /\ objects = [c \in Colls |-> Objs]
    /\ sceneObjs = Objs
    /\ export_path_prop = <<"/", "o">>
    /\ use_collection_structure \in BOOLEAN
    /\ blend_filepath = <<>>
    /\ selected = {}
    /\ active = <<>>
    /\ mode = "OBJECT"
    /\ AllFlagged
    /\ report = NoReport
    /\ export_path = <<>>
    /\ exported_count = 0
    /\ calls = <<>>
    /\ made_dirs = {}

NextPaths ==
    GLTF_OT_export_collections

SpecPaths ==
    InitPaths /\ [][NextPaths]_vars

\* Values of the Export Path setting.
ExportPathValues ==
    {<<>>, <<" ">>, <<" ", " ">>, <<"/", "o">>, <<" ", "/", "o", " ">>, <<"/", "o", "/">>,
     <<"/", "/", "o">>, <<"o", " ", "p">>}

\* Values of bpy.data.filepath: unsaved, or saved.
BlendFilepathValues ==
    {<<>>, <<"/", "p", "/", "f", ".", "b">>, <<"/", "f", ".", "b">>}

\* Scenes for the export path: a chain of collections, any settings.
InitProps ==
    /\ name = [c \in Colls |-> SimpleNames[c]]
    /\ children = [c \in Colls |-> IF c < NumColl THEN {c + 1} ELSE {}]
    /\ objects = [c \in Colls |-> Objs]
    /\ sceneObjs = Objs
    /\ export_path_prop \in ExportPathValues
    /\ use_collection_structure \in BOOLEAN
    /\ blend_filepath \in BlendFilepathValues
    /\ selected \in {{}, Objs}
    /\ \/ active = <<>> /\ mode = "OBJECT"
       \/ active = <<NumObj>> /\ mode \in {"OBJECT", "EDIT"}
    /\ AllFlagged
    /\ report = NoReport
    /\ export_path = <<>>
    /\ exported_count = 0
    /\ calls = <<>>
    /\ made_dirs = {}

NextProps ==
    GLTF_OT_export_collections

SpecProps ==
    InitProps /\ [][NextProps]_vars

--------------------------------------------------------------------------
\* Vocabulary of the properties

\* The export flag of collection c is set and true (absent counts as false).
Flagged(c) ==
    /\ "export_gltf" \in DOMAIN props[c]
    /\ props[c]["export_gltf"] = TRUE

\* The export operator was the last operator to run.
AfterExport ==
    report.op = "export"

\* The exporter invocations of the last run that were for collection c.
CallsFor(c) ==
    {i \in DOMAIN calls : calls[i].collection = c}

\* The objects of collection c that are in the current scene.
SceneObjectsOf(c) ==
    objects[c] \cap sceneObjs

Parents(c) ==
    {p \in Colls : c \in children[p]}

RECURSIVE RootChains(_)
\* The chains of ancestors of c, each from a collection without parent down
\* to a parent of c.
RootChains(c) ==
    IF Parents(c) = {} THEN {<<>>}
    ELSE UNION {{Append(chain, p) : chain \in RootChains(p)} : p \in Parents(c)}

RECURSIVE FollowedBy(_, _)
\* The directory `base` followed by the folders `names`, one below the other.
FollowedBy(base, names) ==
    IF names = <<>> THEN base
    ELSE FollowedBy(base \o (IF base # <<>> /\ base[Len(base)] = "/" THEN <<>> ELSE <<"/">>)
                         \o Head(names),
                    Tail(names))

\* s without its leading and trailing blanks.
Trimmed(s) ==
    LET solid == {i \in 1..Len(s) : s[i] # " "}
    IN  IF solid = {} THEN <<>>
        ELSE SubSeq(s, CHOOSE i \in solid : \A j \in solid : i <= j,
                       CHOOSE i \in solid : \A j \in solid : j <= i)

\* The directory that holds the file of absolute path p.
DirectoryOf(p) ==
    LET slash == CHOOSE i \in 1..Len(p) : p[i] = "/" /\ \A j \in (i + 1)..Len(p) : p[j] # "/"
    IN  IF slash = 1 THEN <<"/">> ELSE SubSeq(p, 1, slash - 1)

\* The user's Desktop directory.
Desktop ==
    <<"/", "h", "/", "D", "e", "s", "k", "t", "o", "p">>

--------------------------------------------------------------------------
\* C1 as stated: after an export run the exporter has been invoked exactly
\* once for every collection whose flag is true and that holds at least one
\* object, and not at all for any other collection.
C1_InvokedForEveryNonEmptyFlagged ==
    AfterExport =>
        \A c \in Colls :
            Cardinality(CallsFor(c)) = IF Flagged(c) /\ objects[c] # {} THEN 1 ELSE 0

\* C1 as amended: after an export run the exporter has been invoked exactly
\* once for every collection whose flag is true and that holds at least one
\* object of the current scene, and not at all for any other collection
\* (flag false or absent, no objects, or no object in the current scene).
C1_InvokedForEveryFlaggedWithSceneObject ==
    AfterExport =>
        \A c \in Colls :
            Cardinality(CallsFor(c)) = IF Flagged(c) /\ SceneObjectsOf(c) # {} THEN 1 ELSE 0

\* A run that exported one collection, skipped a flagged collection whose
\* only objects are outside the scene, and skipped an unflagged collection
\* that holds a scene object.
C1_Witness ==
    /\ AfterExport
    /\ \E c, d, e \in Colls :
           /\ Flagged(c) /\ Cardinality(CallsFor(c)) = 1
           /\ Flagged(d) /\ objects[d] # {} /\ SceneObjectsOf(d) = {} /\ CallsFor(d) = {}
           /\ ~Flagged(e) /\ SceneObjectsOf(e) # {} /\ CallsFor(e) = {}

\* C2: within one export run no two exporter invocations are given the same
\* output file path.
C2_DistinctFilePaths ==
    \A i, j \in DOMAIN calls : i # j => calls[i].filepath # calls[j].filepath

\* C3: with use_collection_structure on, each exported collection is written
\* to the export path followed by the names of a chain of its ancestors from
\* the topmost down to its parent (the export path itself when it has no
\* parent); with it off, every collection is written to the export path and
\* no folder is created.
C3_FolderMirrorsNesting ==
    AfterExport =>
        /\ \A i \in DOMAIN calls :
               IF use_collection_structure
               THEN \E chain \in RootChains(calls[i].collection) :
                        calls[i].dir = FollowedBy(export_path[1],
                                                  [k \in 1..Len(chain) |-> name[chain[k]]])
               ELSE calls[i].dir = export_path[1]
        /\ ~use_collection_structure => made_dirs = {}

\* C4: a toggle of an existing collection inverts that collection's flag
\* (absent or false becomes true, true becomes false) and leaves the
\* properties of every other collection as they were; a second toggle of the
\* same collection right after the first restores the status it had before
\* the first; a toggle of a name no collection has reports an error and
\* changes no property.
C4_ToggleInvertsOneFlag ==
    [][report'.op = "toggle" =>
          IF \E c \in Colls : name[c] = report'.name
          THEN /\ report'.level = "INFO"
               /\ \A c \in Colls :
                      IF name[c] = report'.name
                      THEN /\ Flagged(c)' = ~Flagged(c)
                           /\ (report.op = "toggle" /\ report.name = report'.name)
                                  => Flagged(c)' = (report.status = "disabled")
                      ELSE props'[c] = props[c]
          ELSE /\ report'.level = "ERROR"
               /\ props' = props]_vars

\* A collection toggled on and off again, beside a flagged collection and a
\* collection that never had the flag.
C4_Witness ==
    /\ report.op = "toggle" /\ report.level = "INFO" /\ report.status = "disabled"
    /\ \E c, d, e \in Colls :
           /\ name[c] = report.name /\ "export_gltf" \in DOMAIN props[c] /\ ~Flagged(c)
           /\ Flagged(d)
           /\ "export_gltf" \notin DOMAIN props[e]

\* C5: an export run uses as export path the trimmed Export Path setting
\* when that is not empty, and otherwise the directory of the saved .blend
\* file, or the Desktop directory when the file was never saved; without
\* collection folders every collection is written there.
C5_ExportPathDefault ==
    AfterExport =>
        LET expected == IF Trimmed(export_path_prop) # <<>> THEN Trimmed(export_path_prop)
                        ELSE IF blend_filepath # <<>> THEN DirectoryOf(blend_filepath)
                        ELSE Desktop
        IN  /\ export_path = <<expected>>
            /\ ~use_collection_structure =>
                   \A i \in DOMAIN calls : calls[i].dir = expected

\* A run with a blank Export Path in a saved file, which exported into the
\* file's directory.
C5_Witness ==
    /\ AfterExport
    /\ export_path_prop = <<" ", " ">>
    /\ blend_filepath = <<"/", "p", "/", "f", ".", "b">>
    /\ export_path = <<<<"/", "p">>>>
    /\ calls # <<>>
    /\ ~use_collection_structure

\* C6: right after Enable All every collection has its flag true and right
\* after Disable All every collection has its flag false; running either
\* again changes nothing; an export run started right after Disable All
\* invokes the exporter for no collection.
C6_EnableDisableAll ==
    /\ [](report.op = "enable_all" =>
              /\ \A c \in Colls : Flagged(c)
              /\ props = [c \in Colls |-> EnabledProps(c)])
    /\ [](report.op = "disable_all" =>
              /\ \A c \in Colls : ~Flagged(c)
              /\ props = [c \in Colls |-> DisabledProps(c)])
    /\ [][(report.op = "disable_all" /\ report'.op = "export") => calls' = <<>>]_vars

\* An export run that found every flag set to false, with a collection that
\* holds a scene object, and invoked nothing.
C6_Witness ==
    /\ AfterExport
    /\ \A c \in Colls : "export_gltf" \in DOMAIN props[c] /\ ~Flagged(c)
    /\ \E c \in Colls : SceneObjectsOf(c) # {}
    /\ calls = <<>>

\* C7: get_collection_hierarchy_path returns the empty list for a collection
\* without parent, and for a collection under two or more ancestors a list
\* whose first element is a topmost ancestor and whose last element is a
\* parent of the collection.
C7_HierarchyRootFirst ==
    \A i \in DOMAIN calls :
        use_collection_structure =>
            LET c == calls[i].collection
                h == calls[i].hierarchy
            IN  /\ Parents(c) = {} => h = <<>>
                /\ Len(h) >= 2 =>
                       /\ \E r \in Colls : name[r] = h[1] /\ Parents(r) = {}
                       /\ \E p \in Parents(c) : name[p] = h[Len(h)]

\* C8: at every exporter invocation the selected objects are exactly the
\* objects of the collection being exported that are in the current scene,
\* and the active object is one of them.
C8_SelectionIsolated ==
    \A i \in DOMAIN calls :
        /\ calls[i].selected = SceneObjectsOf(calls[i].collection)
        /\ Len(calls[i].active) = 1
        /\ calls[i].active[1] \in calls[i].selected

\* A run with two invocations for collections with different objects, begun
\* with an object selected that the first collection does not hold.
C8_Witness ==
    /\ AfterExport
    /\ Len(calls) >= 2
    /\ calls[1].selected # calls[2].selected
    /\ selected \ calls[1].selected # {}
    /\ selected \ calls[2].selected # {}

\* C9 as stated: after a run in which the exporter raised for a collection,
\* that collection was passed to the exporter once, every later collection
\* that is flagged and holds an object was passed to the exporter, and the
\* reported count is the number of invocations that did not raise.
C9_FailureContained ==
    AfterExport =>
        /\ \A i \in DOMAIN calls :
               calls[i].raised =>
                   /\ Cardinality(CallsFor(calls[i].collection)) = 1
                   /\ \A d \in Colls :
                          (d > calls[i].collection /\ Flagged(d) /\ objects[d] # {})
                              => CallsFor(d) # {}
        /\ exported_count = Cardinality({i \in DOMAIN calls : ~calls[i].raised})

\* C9 as amended: after a run in which the exporter raised for a collection,
\* that collection was passed to the exporter once, every later collection
\* that is flagged and holds an object of the current scene was passed to
\* the exporter, and the reported count is the number of invocations that
\* did not raise; an export run changes no collection's properties.
C9_FailureContainedInScene ==
    /\ [](AfterExport =>
              /\ \A i \in DOMAIN calls :
                     calls[i].raised =>
                         /\ Cardinality(CallsFor(calls[i].collection)) = 1
                         /\ \A d \in Colls :
                                (d > calls[i].collection /\ Flagged(d) /\ SceneObjectsOf(d) # {})
                                    => CallsFor(d) # {}
              /\ exported_count = Cardinality({i \in DOMAIN calls : ~calls[i].raised}))
    /\ [][report'.op = "export" => props' = props]_vars

\* A run whose first invocation raised and whose second succeeded.
C9_Witness ==
    /\ AfterExport
    /\ Len(calls) >= 2
    /\ calls[1].raised
    /\ ~calls[2].raised
    /\ exported_count = Len(calls) - 1

====
